---- MODULE Spec2Model ----
(***************************************************************************)
(* A model of the persistent JSON cache of weatherpls (json_cache.py):     *)
(* the JsonCache store, its with-block session (__enter__ / __exit__) and  *)
(* the `cached` decorator.                                                  *)
(*                                                                         *)
(* A Python dict is a sequence of entries in insertion order (dicts keep   *)
(* insertion order, sorted() is stable, so the order decides ties).        *)
(* POSIX timestamps are integers; two calls of make_timestamp may return   *)
(* the same number.                                                        *)
(***************************************************************************)
EXTENDS Integers, Sequences, FiniteSets, TLC

VARIABLES now, fs, sess, out, deco, invoked, pure

vars == <<now, fs, sess, out, deco, invoked, pure>>

(***************************************************************************)
(* Bounds of the model.                                                    *)
(***************************************************************************)
\* the clock runs over 0..MaxTime
MaxTime == 2

(***************************************************************************)
(* Python values a cache can be asked to store, and their JSON form.       *)
(***************************************************************************)
PyStr == [type |-> "str", repr |-> "ok"]
PyTuple == [type |-> "tuple", repr |-> "1, 2"]
PyList == [type |-> "list", repr |-> "1, 2"]
PySet == [type |-> "set", repr |-> "1, 2"]
PyNone == [type |-> "NoneType", repr |-> "None"]

\* json.dump accepts str, list, tuple, None (and numbers, dicts); a set raises TypeError
JsonSerializable(v) == v.type \in {"str", "tuple", "list", "NoneType"}

\* json.dump of one value: tuples and lists are both written as a JSON array
JsonEncode(v) ==
    CASE v.type = "str" -> [json |-> "string", text |-> v.repr]
      [] v.type \in {"tuple", "list"} -> [json |-> "array", text |-> v.repr]
      [] OTHER -> [json |-> "null", text |-> "null"]

\* json.loads of one value: every JSON array comes back as a list
JsonDecode(j) ==
    CASE j.json = "string" -> [type |-> "str", repr |-> j.text]
      [] j.json = "array" -> [type |-> "list", repr |-> j.text]
      [] OTHER -> PyNone

(***************************************************************************)
(* The dict self.cache: {call: (response, timestamp)}.                     *)
(***************************************************************************)
Entry(call, response, created) == [call |-> call, response |-> response, created |-> created]

CacheKeys(cache) == {cache[i].call : i \in 1..Len(cache)}

IndexOf(cache, call) == CHOOSE i \in 1..Len(cache) : cache[i].call = call

\* dict.pop(call)
Pop(cache, call) == SelectSeq(cache, LAMBDA e : e.call # call)

\* dict[call] = value: an existing key keeps its position, a new key goes last
SetItem(cache, e) ==
    IF e.call \in CacheKeys(cache)
    THEN [cache EXCEPT ![IndexOf(cache, e.call)] = e]
    ELSE Append(cache, e)

RECURSIVE PopAll(_, _)
PopAll(cache, calls) ==
    IF calls = <<>> THEN cache ELSE PopAll(Pop(cache, Head(calls)), Tail(calls))

(***************************************************************************)
(* The JsonCache object.  trace lists the file and eviction methods that   *)
(* ran on the object, in the order they ran.                               *)
(***************************************************************************)
\* JsonCache.__init__
JsonCacheInit(max_size, max_age, force_update) ==
    [max_size |-> max_size, max_age |-> max_age, force_update |-> force_update,
     cache |-> <<>>, trace |-> <<>>]

NoObject == JsonCacheInit(0, 0, FALSE)

\* store on a cache kept as a list of entries: every store adds one
store_AlwaysAppend(self, call, response, ts) ==
    [self EXCEPT !.cache = Append(@, Entry(call, response, ts))]

\* JsonCache.store; ts is the value make_timestamp() returns
store(self, call, response, ts) ==
    [self EXCEPT !.cache = SetItem(@, Entry(call, response, ts))]

\* retrieve by self.cache.get(call): None instead of KeyError for an absent call
retrieve_Get(self, call) ==
    IF call \in CacheKeys(self.cache)
    THEN [exc |-> "", value |-> self.cache[IndexOf(self.cache, call)].response]
    ELSE [exc |-> "", value |-> PyNone]

\* JsonCache.retrieve: self.cache[call][0], KeyError when call is absent
retrieve(self, call) ==
    IF call \in CacheKeys(self.cache)
    THEN [exc |-> "", value |-> self.cache[IndexOf(self.cache, call)].response]
    ELSE [exc |-> "KeyError", value |-> PyNone]

\* _age_check that subtracts the wrong way round: timestamp - now
_age_check_Reversed(self, call, ts) == self.cache[IndexOf(self.cache, call)].created - ts

\* JsonCache._age_check; ts is the value make_timestamp() returns
_age_check(self, call, ts) == ts - self.cache[IndexOf(self.cache, call)].created

\* _is_current with the age compared by <= (an entry aged exactly max_age current)
_is_current_Inclusive(self, call, ts) ==
    IF self.force_update THEN FALSE
    ELSE IF self.max_age = 0 THEN TRUE
    ELSE _age_check(self, call, ts) <= self.max_age

\* JsonCache._is_current
_is_current(self, call, ts) ==
    IF self.force_update THEN FALSE
    ELSE IF self.max_age = 0 THEN TRUE
    ELSE _age_check(self, call, ts) < self.max_age

\* __contains__ that tests presence only, not currency
__contains__PresenceOnly(self, item, ts) == item \in CacheKeys(self.cache)

\* JsonCache.__contains__
__contains__(self, item, ts) ==
    item \in CacheKeys(self.cache) /\ _is_current(self, item, ts)

\* _purge_expired with the age taken as timestamp - now (a sign slip)
_purge_expired_SignSlip(self, reads) ==
    LET kept == SelectSeq([i \in 1..Len(self.cache) |->
                              [e |-> self.cache[i],
                               old |-> self.cache[i].created - reads[i] > self.max_age]],
                          LAMBDA x : ~x.old)
    IN  IF self.max_age = 0
        THEN [self EXCEPT !.trace = Append(@, "_purge_expired")]
        ELSE [self EXCEPT !.cache = [i \in 1..Len(kept) |-> kept[i].e],
                          !.trace = Append(@, "_purge_expired")]

\* _purge_expired with the age compared by >= (an entry aged exactly max_age
\* goes)
_purge_expired_Inclusive(self, reads) ==
    LET kept == SelectSeq([i \in 1..Len(self.cache) |->
                              [e |-> self.cache[i],
                               old |-> reads[i] - self.cache[i].created >= self.max_age]],
                          LAMBDA x : ~x.old)
    IN  IF self.max_age = 0
        THEN [self EXCEPT !.trace = Append(@, "_purge_expired")]
        ELSE [self EXCEPT !.cache = [i \in 1..Len(kept) |-> kept[i].e],
                          !.trace = Append(@, "_purge_expired")]

\* JsonCache._purge_expired; reads[i] is the value make_timestamp() returns
\* when the i-th entry of the dict is judged
_purge_expired(self, reads) ==
    LET old == {i \in 1..Len(self.cache) : reads[i] - self.cache[i].created > self.max_age}
        kept == SelectSeq([i \in 1..Len(self.cache) |-> [e |-> self.cache[i], old |-> i \in old]],
                          LAMBDA x : ~x.old)
    IN  IF self.max_age = 0
        THEN [self EXCEPT !.trace = Append(@, "_purge_expired")]
        ELSE [self EXCEPT !.cache = [i \in 1..Len(kept) |-> kept[i].e],
                          !.trace = Append(@, "_purge_expired")]

\* sorted(seq, key=timestamp): stable, an entry goes after those not newer than it
InsertByStamp(sorted, e) ==
    LET n == Cardinality({i \in 1..Len(sorted) : sorted[i].created <= e.created})
    IN  SubSeq(sorted, 1, n) \o <<e>> \o SubSeq(sorted, n + 1, Len(sorted))

RECURSIVE SortedByStamp(_)
SortedByStamp(seq) ==
    IF seq = <<>> THEN <<>>
    ELSE InsertByStamp(SortedByStamp(SubSeq(seq, 1, Len(seq) - 1)), seq[Len(seq)])

Min(a, b) == IF a < b THEN a ELSE b

\* _purge_n_oldest without the sort: the first entries of the dict go
_purge_n_oldest_Unsorted(self, count) ==
    LET doomed == SubSeq(self.cache, 1, Min(count, Len(self.cache)))
    IN  [self EXCEPT !.cache = PopAll(@, [i \in 1..Len(doomed) |-> doomed[i].call])]

\* _purge_n_oldest that sorts with reverse=True: the newest entries go
_purge_n_oldest_Newest(self, count) ==
    LET sorted_entries == SortedByStamp(self.cache)
        n == Len(sorted_entries)
        doomed == SubSeq(sorted_entries, n - Min(count, n) + 1, n)
    IN  [self EXCEPT !.cache = PopAll(@, [i \in 1..Len(doomed) |-> doomed[i].call])]

\* JsonCache._purge_n_oldest
_purge_n_oldest(self, count) ==
    LET sorted_entries == SortedByStamp(self.cache)
        doomed == SubSeq(sorted_entries, 1, Min(count, Len(sorted_entries)))
    IN  [self EXCEPT !.cache = PopAll(@, [i \in 1..Len(doomed) |-> doomed[i].call])]

\* _cull_to_size that leaves count at its default of 1
_cull_to_size_DefaultCount(self) ==
    LET done == [self EXCEPT !.trace = Append(@, "_cull_to_size")]
    IN  IF self.max_size = 0 THEN done
        ELSE IF Len(self.cache) > self.max_size
             THEN [self EXCEPT !.trace = Append(@, "_cull_to_size"),
                               !.cache = Pop(@, SortedByStamp(self.cache)[1].call)]
             ELSE done

\* JsonCache._cull_to_size
_cull_to_size(self) ==
    LET done == [self EXCEPT !.trace = Append(@, "_cull_to_size")]
    IN  IF self.max_size = 0 THEN done
        ELSE IF Len(self.cache) > self.max_size
             THEN _purge_n_oldest(done, Len(self.cache) - self.max_size)
             ELSE done

(***************************************************************************)
(* The backing file.  fs.dir: the parent directory exists.  fs.kind:       *)
(*   "missing"  no file                                                    *)
(*   "empty"    a file of zero bytes                                       *)
(*   "object"   a JSON object, members in file order                       *)
(*   "partial"  the text json.dump had written when it raised: the opening *)
(*              of an object that does not parse                           *)
(*   "garbage"  other text that does not parse                             *)
(***************************************************************************)
File(kind, members) == [kind |-> kind, members |-> members]

Member(e) == [name |-> e.call, value |-> JsonEncode(e.response), stamp |-> e.created]

\* the entries json.dump writes completely: all those before the first
\* response it cannot encode
RECURSIVE Dumpable(_)
Dumpable(cache) ==
    IF cache = <<>> \/ ~JsonSerializable(Head(cache).response) THEN <<>>
    ELSE <<Head(cache)>> \o Dumpable(Tail(cache))

\* write_file that opens the file with "a": the text is added to what the
\* file held, and two JSON texts in a row do not parse
write_file_Append(self, files) ==
    LET written == Dumpable(self.cache)
        text == [i \in 1..Len(written) |-> Member(written[i])]
        ok == Len(written) = Len(self.cache)
        wrote == [self EXCEPT !.trace = Append(@, "write_file")]
    IN  IF ~files.writable THEN [self |-> wrote, fs |-> files, exc |-> "OSError"]
        ELSE [self |-> wrote,
              fs |-> [dir |-> TRUE,
                      file |-> IF files.file.kind \in {"missing", "empty"}
                               THEN IF ok THEN File("object", text) ELSE File("partial", text)
                               ELSE File("garbage", <<>>),
                      writable |-> TRUE],
              exc |-> IF ok THEN "" ELSE "TypeError"]

\* write_file that reads the file again and keeps its entries for the keys
\* the cache does not hold (a merge)
write_file_Merge(self, files) ==
    LET written == Dumpable(self.cache)
        text == [i \in 1..Len(written) |-> Member(written[i])]
        ok == Len(written) = Len(self.cache)
        wrote == [self EXCEPT !.trace = Append(@, "write_file")]
        others == IF files.file.kind = "object"
                  THEN SelectSeq(files.file.members,
                                 LAMBDA m : m.name \notin CacheKeys(self.cache))
                  ELSE <<>>
    IN  IF ~files.writable THEN [self |-> wrote, fs |-> files, exc |-> "OSError"]
        ELSE [self |-> wrote,
              fs |-> [dir |-> TRUE,
                      file |-> IF ok THEN File("object", others \o text)
                               ELSE File("partial", text),
                      writable |-> TRUE],
              exc |-> IF ok THEN "" ELSE "TypeError"]

\* JsonCache.write_file; where the directory or the file cannot be written,
\* mkdir or open raises OSError and nothing on disk changes
write_file(self, files) ==
    LET written == Dumpable(self.cache)
        text == [i \in 1..Len(written) |-> Member(written[i])]
        ok == Len(written) = Len(self.cache)
        wrote == [self EXCEPT !.trace = Append(@, "write_file")]
    IN  IF ~files.writable THEN [self |-> wrote, fs |-> files, exc |-> "OSError"]
        ELSE [self |-> wrote,
              fs |-> [dir |-> TRUE,
                      file |-> IF ok THEN File("object", text) ELSE File("partial", text),
                      writable |-> TRUE],
              exc |-> IF ok THEN "" ELSE "TypeError"]

\* json.loads of a whole file that holds an object
LoadMembers(members) ==
    [i \in 1..Len(members) |->
        Entry(members[i].name, JsonDecode(members[i].value), members[i].stamp)]

\* read_file without the `if contents` test: json.loads("") raises
read_file_NoEmptyCheck(self, files) ==
    LET read == [self EXCEPT !.trace = Append(@, "read_file")]
    IN  CASE files.file.kind = "missing" -> [self |-> [read EXCEPT !.cache = <<>>], exc |-> ""]
          [] files.file.kind = "object" ->
                [self |-> [read EXCEPT !.cache = LoadMembers(files.file.members)], exc |-> ""]
          [] OTHER -> [self |-> read, exc |-> "JSONDecodeError"]

\* read_file that takes text that does not parse for an empty cache
read_file_ResetOnCorrupt(self, files) ==
    LET read == [self EXCEPT !.trace = Append(@, "read_file")]
    IN  IF files.file.kind = "object"
        THEN [self |-> [read EXCEPT !.cache = LoadMembers(files.file.members)], exc |-> ""]
        ELSE [self |-> [read EXCEPT !.cache = <<>>], exc |-> ""]

\* JsonCache.read_file
read_file(self, files) ==
    LET read == [self EXCEPT !.trace = Append(@, "read_file")]
    IN  CASE files.file.kind = "missing" -> [self |-> [read EXCEPT !.cache = <<>>], exc |-> ""]
          [] files.file.kind = "empty" -> [self |-> [read EXCEPT !.cache = <<>>], exc |-> ""]
          [] files.file.kind = "object" ->
                [self |-> [read EXCEPT !.cache = LoadMembers(files.file.members)], exc |-> ""]
          [] OTHER -> [self |-> read, exc |-> "JSONDecodeError"]

\* JsonCache.__enter__
__enter__(self, files) == read_file(self, files)

\* __exit__ that culls before it purges
__exit__CullFirst(self, files, reads) ==
    write_file(_purge_expired(_cull_to_size(self), reads), files)

\* __exit__ that catches what write_file raises and goes on
__exit__Swallow(self, files, reads) ==
    [write_file(_cull_to_size(_purge_expired(self, reads)), files) EXCEPT !.exc = ""]

\* JsonCache.__exit__; reads are the clock readings of _purge_expired
__exit__(self, files, reads) ==
    write_file(_cull_to_size(_purge_expired(self, reads)), files)

(***************************************************************************)
(* State.                                                                  *)
(*   now   the clock make_timestamp() reads                                *)
(*   fs    the cache directory and the backing file                        *)
(*   sess  per with-statement: pc ("idle" or "block") and the JsonCache    *)
(*         object it holds                                                 *)
(*   out   the last operation: what it was given, the state it started in  *)
(*         (before, fs, at), when it ended (end), what its block raised    *)
(*         (raised) and what it gave back to its caller                    *)
(*   deco  the limits the decorator was given                              *)
(*   invoked  per call string, how often the wrapped function has run      *)
(*   pure  the last call of a function of weatherpls.py: its name, its     *)
(*         argument and what it returned                                   *)
(***************************************************************************)
Sessions == {"A"}

Idle == [pc |-> "idle", self |-> NoObject]

NoPure == [fn |-> "none", arg |-> 0, ret |-> ""]

NoOut ==
    [op |-> "none", key |-> "", given |-> PyNone, value |-> PyNone, flag |-> FALSE, exc |-> "",
     context |-> "", trace |-> <<>>, before |-> NoObject, at |-> 0,
     raised |-> "", end |-> 0,
     fs |-> [dir |-> FALSE, file |-> File("missing", <<>>), writable |-> TRUE]]

\* clock readings of one purge: the clock may move on once, by d, after the
\* first `split` entries were judged
Reads(t, n, split, d) == [i \in 1..n |-> IF i <= split THEN t ELSE t + d]

Tick ==
    /\ now < MaxTime
    /\ now' = now + 1
    /\ UNCHANGED <<fs, sess, out, deco, invoked, pure>>

\* the environment takes away or gives back the right to write the cache
\* directory and the file
Chmod ==
    /\ fs' = [fs EXCEPT !.writable = ~@]
    /\ UNCHANGED <<now, sess, out, deco, invoked, pure>>

\* with JsonCache(path, max_size, max_age, force_update) as cache:
Enter(s, max_size, max_age, force_update) ==
    /\ sess[s].pc = "idle"
    /\ LET r == __enter__(JsonCacheInit(max_size, max_age, force_update), fs)
       IN  /\ sess' = [sess EXCEPT ![s] =
                          IF r.exc = "" THEN [pc |-> "block", self |-> r.self] ELSE Idle]
           /\ out' = [NoOut EXCEPT !.op = "enter", !.exc = r.exc, !.trace = r.self.trace,
                                   !.before = r.self, !.at = now, !.fs = fs]
    /\ UNCHANGED <<now, fs, deco, invoked, pure>>

\* cache.store(k, v) inside the block
StoreOp(s, k, v) ==
    /\ sess[s].pc = "block"
    /\ sess' = [sess EXCEPT ![s].self = store(@, k, v, now)]
    /\ out' = [NoOut EXCEPT !.op = "store", !.key = k, !.given = v, !.at = now,
                            !.before = sess[s].self]
    /\ UNCHANGED <<now, fs, deco, invoked, pure>>

\* k in cache, inside the block
ContainsOp(s, k) ==
    /\ sess[s].pc = "block"
    /\ out' = [NoOut EXCEPT !.op = "contains", !.key = k, !.at = now,
                            !.before = sess[s].self,
                            !.flag = __contains__(sess[s].self, k, now)]
    /\ UNCHANGED <<now, fs, sess, deco, invoked, pure>>

\* cache.retrieve(k) inside the block
RetrieveOp(s, k) ==
    /\ sess[s].pc = "block"
    /\ LET r == retrieve(sess[s].self, k)
       IN  out' = [NoOut EXCEPT !.op = "retrieve", !.key = k, !.at = now,
                                !.before = sess[s].self, !.value = r.value, !.exc = r.exc]
    /\ UNCHANGED <<now, fs, sess, deco, invoked, pure>>

\* the block ends, normally (raised = "") or by raising; __exit__ returns
\* None, so an exception of the block goes on to the caller, and an
\* exception of __exit__ replaces it and keeps it as its __context__
Release(s, raised, split, d) ==
    /\ sess[s].pc = "block"
    /\ now + d <= MaxTime
    /\ LET self == sess[s].self
           r == __exit__(self, fs, Reads(now, Len(self.cache), split, d))
       IN  /\ fs' = r.fs
           /\ out' = [NoOut EXCEPT !.op = "exit",
                                   !.exc = IF r.exc # "" THEN r.exc ELSE raised,
                                   !.context = IF r.exc # "" THEN raised ELSE "",
                                   !.trace = r.self.trace, !.before = self, !.at = now,
                                   !.raised = raised, !.end = now + d, !.fs = fs]
    /\ now' = now + d
    /\ sess' = [sess EXCEPT ![s] = Idle]
    /\ UNCHANGED <<deco, invoked, pure>>

(***************************************************************************)
(* The decorator.  An argument list is the repr of the positional tuple,   *)
(* the keyword names and the repr of the keyword dict.                     *)
(***************************************************************************)
ArgList(args, names, kwargs) == [args |-> args, names |-> names, kwargs |-> kwargs]

\* f"{args}, {kwargs}"
CallString(a) == a.args \o ", " \o a.kwargs

\* for k, v in kwargs: iterates the keyword names and unpacks each name, a
\* string, into (k, v): ValueError unless the name has two characters
WarnLoop(a) ==
    IF \A i \in 1..Len(a.names) : Len(a.names[i]) = 2 THEN "" ELSE "ValueError"

\* cache_wrapper that stores an entry also when the wrapped function raised,
\* with None for the response
cache_wrapper_StoresOnRaise(conf, a, fn, files, t, wait, split, d) ==
    LET call_string == CallString(a)
        failed(exc, trace) ==
            [exc |-> exc, context |-> "", value |-> PyNone, fs |-> files, ran |-> FALSE,
             end |-> t, trace |-> trace, raised |-> ""]
        e == __enter__(JsonCacheInit(conf.max_size, conf.max_age, conf.force_update), files)
        miss == ~__contains__(e.self, call_string, t)
        t1 == IF miss THEN t + wait ELSE t
        block == IF miss THEN store(e.self, call_string, fn.value, t1) ELSE e.self
        raised == IF miss THEN fn.exc ELSE ""
        got == IF raised = "" THEN retrieve(block, call_string).value ELSE PyNone
        x == __exit__(block, files, Reads(t1, Len(block.cache), split, d))
    IN  IF WarnLoop(a) # "" THEN failed(WarnLoop(a), <<>>)
        ELSE IF e.exc # "" THEN failed(e.exc, e.self.trace)
        ELSE [exc |-> IF x.exc # "" THEN x.exc ELSE raised,
              context |-> IF x.exc # "" THEN raised ELSE "",
              value |-> IF x.exc # "" \/ raised # "" THEN PyNone ELSE got,
              fs |-> x.fs, ran |-> miss, end |-> t1 + d, trace |-> x.self.trace,
              raised |-> raised]

\* cached.cache_wrapper, called at time t with limits conf; fn is what the
\* wrapped function does when called (returns fn.value or raises fn.exc)
\* after `wait` ticks; split and d give the clock readings of the purge
cache_wrapper(conf, a, fn, files, t, wait, split, d) ==
    LET call_string == CallString(a)
        failed(exc, trace) ==
            [exc |-> exc, context |-> "", value |-> PyNone, fs |-> files, ran |-> FALSE,
             end |-> t, trace |-> trace, raised |-> ""]
        e == __enter__(JsonCacheInit(conf.max_size, conf.max_age, conf.force_update), files)
        miss == ~__contains__(e.self, call_string, t)
        t1 == IF miss THEN t + wait ELSE t
        block == IF miss /\ fn.exc = "" THEN store(e.self, call_string, fn.value, t1) ELSE e.self
        raised == IF miss THEN fn.exc ELSE ""
        got == IF raised = "" THEN retrieve(block, call_string).value ELSE PyNone
        x == __exit__(block, files, Reads(t1, Len(block.cache), split, d))
    IN  IF WarnLoop(a) # "" THEN failed(WarnLoop(a), <<>>)
        ELSE IF e.exc # "" THEN failed(e.exc, e.self.trace)
        ELSE [exc |-> IF x.exc # "" THEN x.exc ELSE raised,
              context |-> IF x.exc # "" THEN raised ELSE "",
              value |-> IF x.exc # "" \/ raised # "" THEN PyNone ELSE got,
              fs |-> x.fs, ran |-> miss, end |-> t1 + d, trace |-> x.self.trace,
              raised |-> raised]

\* the wrapped function runs at most MaxInvoked times in all
MaxInvoked == 2

RECURSIVE SumOver(_, _)
SumOver(f, S) ==
    IF S = {} THEN 0 ELSE LET x == CHOOSE y \in S : TRUE IN f[x] + SumOver(f, S \ {x})

\* one call of the decorated function
Call(a, fn, wait, split, d) ==
    /\ \A s \in Sessions : sess[s].pc = "idle"
    /\ SumOver(invoked, DOMAIN invoked) < MaxInvoked
    /\ now + wait + d <= MaxTime
    /\ LET r == cache_wrapper(deco, a, fn, fs, now, wait, split, d)
       IN  /\ fs' = r.fs
           /\ now' = r.end
           /\ invoked' = [invoked EXCEPT ![CallString(a)] = IF r.ran THEN @ + 1 ELSE @]
           /\ out' = [NoOut EXCEPT !.op = "call", !.key = CallString(a), !.given = fn.value,
                                   !.value = r.value, !.flag = r.ran, !.exc = r.exc,
                                   !.context = r.context, !.trace = r.trace,
                                   !.raised = r.raised, !.end = r.end, !.at = now,
                                   !.fs = fs]
    /\ UNCHANGED <<sess, deco, pure>>

(***************************************************************************)
(* Spec: with-blocks over one file, one after the other, each with its own *)
(* limits, while the clock advances.                                       *)
(***************************************************************************)
Keys == {"k1", "k2"}
Sizes == {0, 1}
Ages == {0, 1}

ArgLists ==
    {ArgList("(1,)", <<>>, "{}"), ArgList("(2,)", <<>>, "{}"),
     ArgList("(1,)", <<"lat">>, "{'lat': 3}")}

CallStrings == {CallString(a) : a \in ArgLists}

InitFiles ==
    {[dir |-> FALSE, file |-> File("missing", <<>>), writable |-> TRUE],
     [dir |-> TRUE, file |-> File("missing", <<>>), writable |-> TRUE],
     [dir |-> TRUE, file |-> File("empty", <<>>), writable |-> TRUE],
     [dir |-> TRUE, file |-> File("garbage", <<>>), writable |-> TRUE]}

Init ==
    /\ now = 0
    /\ fs \in InitFiles
    /\ sess = [s \in Sessions |-> Idle]
    /\ out = NoOut
    /\ deco = [max_size |-> 0, max_age |-> 0, force_update |-> FALSE]
    /\ invoked = [c \in CallStrings |-> 0]
    /\ pure = NoPure

Next ==
    \/ Tick
    \/ \E s \in Sessions, sz \in Sizes, ag \in Ages, fu \in BOOLEAN : Enter(s, sz, ag, fu)
    \/ \E s \in Sessions, k \in Keys : StoreOp(s, k, PyStr)
    \/ \E s \in Sessions, k \in Keys : ContainsOp(s, k)
    \/ \E s \in Sessions, k \in Keys : RetrieveOp(s, k)
    \/ \E s \in Sessions, raised \in {"", "BlockError"}, split \in 0..2, d \in {0, 1} :
          Release(s, raised, split, d)

Spec == Init /\ [][Next]_vars

(***************************************************************************)
(* SpecSize: with-blocks over three keys and size limits up to two.        *)
(***************************************************************************)
SizeKeys == {"k1", "k2", "k3"}

NextSize ==
    \/ Tick
    \/ \E s \in Sessions, sz \in {0, 1, 2} : Enter(s, sz, 0, FALSE)
    \/ \E s \in Sessions, k \in SizeKeys : StoreOp(s, k, PyStr)
    \/ \E s \in Sessions, raised \in {"", "BlockError"}, split \in 0..3, d \in {0, 1} :
          Release(s, raised, split, d)

SpecSize == Init /\ [][NextSize]_vars

(***************************************************************************)
(* SpecValues: with-blocks that store values of every type; the clock      *)
(* stands still.                                                           *)
(***************************************************************************)
Values == {PyStr, PyTuple, PyList, PySet}

NextValues ==
    \/ \E s \in Sessions : Enter(s, 0, 0, FALSE)
    \/ \E s \in Sessions, k \in Keys, v \in Values : StoreOp(s, k, v)
    \/ \E s \in Sessions, raised \in {"", "BlockError"} : Release(s, raised, 0, 0)

SpecValues == Init /\ [][NextValues]_vars

(***************************************************************************)
(* SpecDecorator: calls of one decorated function, and with-blocks with    *)
(* the same limits over its file, while the clock advances.                *)
(***************************************************************************)
DecoSizes == {0, 1, Cardinality(ArgLists)}
DecoAges == {0, 1, MaxTime + 1}
Responses == {PyStr, PyTuple}

InitDecorator ==
    /\ now = 0
    /\ fs \in {f \in InitFiles : f.dir = (f.file.kind # "missing")}
    /\ sess = [s \in Sessions |-> Idle]
    /\ out = NoOut
    /\ deco \in [max_size : DecoSizes, max_age : DecoAges, force_update : BOOLEAN]
    /\ invoked = [c \in CallStrings |-> 0]
    /\ pure = NoPure

NextDecorator ==
    \/ Tick
    \/ \E a \in ArgLists, v \in Responses, wait \in {0, 1}, d \in {0, 1} :
          Call(a, [exc |-> "", value |-> v], wait, 0, d)
    \/ \E s \in Sessions : Enter(s, deco.max_size, deco.max_age, deco.force_update)
    \/ \E s \in Sessions, raised \in {"", "BlockError"} : Release(s, raised, 0, 0)

SpecDecorator == InitDecorator /\ [][NextDecorator]_vars

(***************************************************************************)
(* SpecOverlap: two with-blocks over one file that may be open at the same *)
(* time (one nested in the other, or in two threads that take turns); no   *)
(* limits, and the clock stands still.                                     *)
(***************************************************************************)
Overlapping == {"A", "B"}

InitOverlap ==
    /\ now = 0
    /\ fs \in InitFiles
    /\ sess = [s \in Overlapping |-> Idle]
    /\ out = NoOut
    /\ deco = [max_size |-> 0, max_age |-> 0, force_update |-> FALSE]
    /\ invoked = [c \in CallStrings |-> 0]
    /\ pure = NoPure

NextOverlap ==
    \/ \E s \in Overlapping : Enter(s, 0, 0, FALSE)
    \/ \E s \in Overlapping, k \in Keys, v \in {PyStr, PyList} : StoreOp(s, k, v)
    \/ \E s \in Overlapping, raised \in {"", "BlockError"} : Release(s, raised, 0, 0)

SpecOverlap == InitOverlap /\ [][NextOverlap]_vars
(***************************************************************************)
(* SpecFaults: with-blocks and decorated calls whose flush can fail: for a *)
(* response json cannot encode, or for a file that cannot be written; the  *)
(* block or the wrapped function may raise as well.  No limits, and the    *)
(* clock stands still.                                                     *)
(***************************************************************************)
Positional == {a \in ArgLists : a.names = <<>>}

Outcomes ==
    {[exc |-> "", value |-> PyStr], [exc |-> "", value |-> PySet],
     [exc |-> "FuncError", value |-> PyNone]}

NextFaults ==
    \/ Chmod
    \/ \E s \in Sessions : Enter(s, 0, 0, FALSE)
    \/ \E s \in Sessions, k \in Keys, v \in {PyStr, PySet} : StoreOp(s, k, v)
    \/ \E s \in Sessions, raised \in {"", "BlockError"} : Release(s, raised, 0, 0)
    \/ \E a \in Positional, fn \in Outcomes : Call(a, fn, 0, 0, 0)

SpecFaults == Init /\ [][NextFaults]_vars
(***************************************************************************)
(* weatherpls._make_ordinal.  str(n) is the decimal text of n, with a      *)
(* leading "-" for a negative n, so str(n)[-1] is the last digit of |n|;   *)
(* n % 100 is never negative, in Python as in TLA+.                        *)
(***************************************************************************)
Abs(n) == IF n < 0 THEN 0 - n ELSE n

oridnal_suffix == [d \in {1, 2, 3} |-> <<"st", "nd", "rd">>[d]]

_make_ordinal(n) ==
    LET last == Abs(n) % 10
    IN  IF last \in DOMAIN oridnal_suffix /\ ~(10 < n % 100 /\ n % 100 < 14)
        THEN ToString(n) \o oridnal_suffix[last]
        ELSE ToString(n) \o "th"

(***************************************************************************)
(* SpecOrdinal: _make_ordinal called once, on any n from -MaxOrdinal to    *)
(* MaxOrdinal.                                                             *)
(***************************************************************************)
MaxOrdinal == 125

InitOrdinal ==
    /\ now = 0
    /\ fs \in InitFiles
    /\ sess = [s \in Sessions |-> Idle]
    /\ out = NoOut
    /\ deco = [max_size |-> 0, max_age |-> 0, force_update |-> FALSE]
    /\ invoked = [c \in CallStrings |-> 0]
    /\ pure \in {[NoPure EXCEPT !.arg = n] : n \in (0 - MaxOrdinal)..MaxOrdinal}

MakeOrdinal ==
    /\ pure.fn = "none"
    /\ pure' = [pure EXCEPT !.fn = "_make_ordinal", !.ret = _make_ordinal(pure.arg)]
    /\ UNCHANGED <<now, fs, sess, out, deco, invoked>>

NextOrdinal == MakeOrdinal

SpecOrdinal == InitOrdinal /\ [][NextOrdinal]_vars
(***************************************************************************)
(* weatherpls._parse_compass_heading, for a whole number of degrees.  The  *)
(* code computes in floats; h + 11.25, its remainder by 360 and the floor  *)
(* division by 22.5 are exact for the headings considered, so the model    *)
(* counts in quarters of a degree: 11.25 = 45/4, 360 = 1440/4, 22.5 =      *)
(* 90/4.  % gives a result with the sign of the divisor, in Python as in   *)
(* TLA+.  A key that is not in points raises KeyError.                     *)
(***************************************************************************)
points ==
    [i \in 0..15 |->
        <<"N", "NNE", "NE", "ENE", "E", "ESE", "SE", "SSE",
          "S", "SSW", "SW", "WSW", "W", "WNW", "NW", "NNW">>[i + 1]]

\* _parse_compass_heading without the 11.25 that centres the sectors
_parse_compass_heading_NoOffset(heading) ==
    LET key == ((4 * heading) % 1440) \div 90
    IN  IF key \in DOMAIN points THEN points[key] ELSE "KeyError"

_parse_compass_heading(heading) ==
    LET key == ((4 * heading + 45) % 1440) \div 90
    IN  IF key \in DOMAIN points THEN points[key] ELSE "KeyError"

(***************************************************************************)
(* SpecHeading: _parse_compass_heading called once, on any whole heading   *)
(* from -MaxHeading to MaxHeading.                                         *)
(***************************************************************************)
MaxHeading == 400

InitHeading ==
    /\ now = 0
    /\ fs \in InitFiles
    /\ sess = [s \in Sessions |-> Idle]
    /\ out = NoOut
    /\ deco = [max_size |-> 0, max_age |-> 0, force_update |-> FALSE]
    /\ invoked = [c \in CallStrings |-> 0]
    /\ pure \in {[NoPure EXCEPT !.arg = h] : h \in (0 - MaxHeading)..MaxHeading}

ParseCompassHeading ==
    /\ pure.fn = "none"
    /\ pure' = [pure EXCEPT !.fn = "_parse_compass_heading",
                            !.ret = _parse_compass_heading(pure.arg)]
    /\ UNCHANGED <<now, fs, sess, out, deco, invoked>>

NextHeading == ParseCompassHeading

SpecHeading == InitHeading /\ [][NextHeading]_vars
(***************************************************************************)
(* SpecRaising: calls of one decorated function that returns or raises,    *)
(* while the clock advances.                                               *)
(***************************************************************************)
NextRaising ==
    \/ Tick
    \/ \E a \in ArgLists, fn \in {[exc |-> "", value |-> PyStr],
                                  [exc |-> "FuncError", value |-> PyNone]},
          wait \in {0, 1}, d \in {0, 1} :
          Call(a, fn, wait, 0, d)

SpecRaising == InitDecorator /\ [][NextRaising]_vars
(***************************************************************************)
(* SpecResize: calls of a decorated function with a size limit over a file *)
(* that with-blocks without limits write as well (the same cache file used *)
(* with another configuration), so that the file may hold more entries     *)
(* than the limit of the decorator.  The decorator has max_age = 1; the    *)
(* cache directory does not exist at the start.                            *)
(***************************************************************************)
ResizeSizes == {1}

InitResize ==
    /\ now = 0
    /\ fs \in {f \in InitFiles : ~f.dir}
    /\ sess = [s \in Sessions |-> Idle]
    /\ out = NoOut
    /\ deco \in [max_size : ResizeSizes, max_age : {1}, force_update : BOOLEAN]
    /\ invoked = [c \in CallStrings |-> 0]
    /\ pure = NoPure

NextResize ==
    \/ Tick
    \/ \E s \in Sessions : Enter(s, 0, 0, FALSE)
    \/ \E s \in Sessions, a \in Positional : StoreOp(s, CallString(a), PyStr)
    \/ \E s \in Sessions : Release(s, "", 0, 0)
    \/ \E a \in Positional, d \in 0..2 :
          Call(a, [exc |-> "", value |-> PyStr], 0, 0, d)

SpecResize == InitResize /\ [][NextResize]_vars

(***************************************************************************)
(* Properties.                                                             *)
(***************************************************************************)
Names(file) == {file.members[i].name : i \in 1..Len(file.members)}

Created(cache, call) == cache[IndexOf(cache, call)].created

Lifecycle == <<"read_file", "_purge_expired", "_cull_to_size", "write_file">>

\* C1: in every with-block the file is read exactly once on entry, and the
\* release runs _purge_expired, _cull_to_size, write_file once each and in
\* that order, whether the block ended normally or raised.  (Spec)
C1_SessionRunsLoadPurgeCullFlushOnce ==
    /\ \A s \in Sessions : sess[s].pc = "block" => sess[s].self.trace = <<"read_file">>
    /\ out.op = "exit" => out.trace = Lifecycle

C1_Witness == out.op = "exit" /\ out.exc = "BlockError" /\ out.trace = Lifecycle

\* C3: `key in cache` is true iff the key is present and force_update is
\* false and (max_age is 0 or now - created_at < max_age); so with
\* force_update it is false for every key, and with max_age = A > 0 an entry
\* stored at t is current before t + A and not current after t + A.  (Spec)
C3_ContainsIffPresentAndCurrent ==
    out.op = "contains" =>
        LET self == out.before
            present == out.key \in CacheKeys(self.cache)
            t == Created(self.cache, out.key)
        IN  /\ out.flag <=> /\ present
                            /\ ~self.force_update
                            /\ (self.max_age = 0 \/ out.at - t < self.max_age)
            /\ self.force_update => ~out.flag
            /\ (present /\ ~self.force_update /\ self.max_age > 0) =>
                  /\ out.at < t + self.max_age => out.flag
                  /\ out.at > t + self.max_age => ~out.flag

C3_Witness ==
    /\ out.op = "contains"
    /\ out.key \in CacheKeys(out.before.cache)
    /\ ~out.before.force_update
    /\ out.before.max_age > 0
    /\ out.at > Created(out.before.cache, out.key) + out.before.max_age
    /\ ~out.flag

\* C4: after a with-block with max_size = N > 0 has closed, the file holds
\* an object of at most N members, whatever was stored in the block and
\* whatever the file held before; with max_size = 0 (and no age limit) every
\* entry of the store is written.  (SpecSize)
C4_FileWithinMaxSizeAfterRelease ==
    out.op = "exit" =>
        /\ out.before.max_size > 0 =>
              fs.file.kind = "object" /\ Len(fs.file.members) <= out.before.max_size
        /\ out.before.max_size = 0 =>
              /\ Len(fs.file.members) = Len(out.before.cache)
              /\ Names(fs.file) = CacheKeys(out.before.cache)

C4_Witness ==
    /\ out.op = "exit"
    /\ out.before.max_size = 1
    /\ Len(out.fs.file.members) = 3
    /\ Len(out.before.cache) = 3
    /\ Len(fs.file.members) = 1

\* the place of entry i of cache c in the order of removal: the number of
\* entries with a smaller timestamp, or the same timestamp and an earlier
\* place in the dict
RemovalRank(c, i) ==
    Cardinality({j \in 1..Len(c) : \/ c[j].created < c[i].created
                                   \/ c[j].created = c[i].created /\ j < i})

\* C5: culling a store of N + k entries (k > 0) to max_size = N removes
\* exactly k entries, those with the smallest created_at (no removed entry is
\* newer than a surviving one), entries of equal timestamp going in dict
\* order; the others stay as they were, in their order.  (SpecSize)
C5_CullRemovesOldest ==
    (out.op = "exit" /\ out.before.max_size > 0
        /\ Len(out.before.cache) > out.before.max_size) =>
        LET c == out.before.cache
            k == Len(c) - out.before.max_size
            removed == {i \in 1..Len(c) : RemovalRank(c, i) < k}
            flagged == [i \in 1..Len(c) |-> [e |-> c[i], gone |-> i \in removed]]
            left == SelectSeq(flagged, LAMBDA x : ~x.gone)
        IN  /\ Cardinality(removed) = k
            /\ fs.file.kind = "object"
            /\ fs.file.members = [i \in 1..Len(left) |-> Member(left[i].e)]
            /\ \A i \in removed, j \in (1..Len(c)) \ removed :
                  c[i].created <= c[j].created

C5_Witness ==
    /\ out.op = "exit"
    /\ out.before.max_size = 1
    /\ Len(out.before.cache) = 3
    /\ \E i, j \in 1..3 :
          /\ i < j
          /\ out.before.cache[i].created = out.before.cache[j].created
          /\ out.before.cache[i].call \notin Names(fs.file)
          /\ out.before.cache[j].call \in Names(fs.file)

\* a value of a type JSON has: json.loads(json.dumps(v)) == v
JsonNative(v) == v.type \in {"str", "list", "NoneType"}

C6_Flushed ==
    (out.op = "exit" /\ \A i \in 1..Len(out.before.cache) :
                            JsonSerializable(out.before.cache[i].response)) =>
        /\ fs.file.kind = "object"
        /\ Len(fs.file.members) = Len(out.before.cache)

\* what a reload must give back for the entries of the flushed mapping: for
\* all of them, or (jsonOnly) for those whose values are of a type JSON has
Reloaded(jsonOnly) ==
    (out.op = "exit" /\ fs.file.kind = "object" /\ out'.op = "enter") =>
        LET flushed == out.before.cache
            fresh == out'.before
        IN  /\ out'.exc = ""
            /\ Len(fresh.cache) = Len(flushed)
            /\ \A i \in 1..Len(flushed) :
                  /\ fresh.cache[i].call = flushed[i].call
                  /\ fresh.cache[i].created = flushed[i].created
                  /\ (~jsonOnly \/ JsonNative(flushed[i].response)) =>
                        retrieve(fresh, flushed[i].call).value = flushed[i].response
                  /\ flushed[i].response.type = "tuple" =>
                        retrieve(fresh, flushed[i].call).value =
                            [type |-> "list", repr |-> flushed[i].response.repr]

\* C6 as stated: after store(k, v), a flush and a reload into a fresh store,
\* retrieve(k) equals v for every value json.dump accepts, and the reloaded
\* mapping has the keys, values and timestamps of the flushed one.
\* (SpecValues; the limits are 0 there, so the release removes nothing)
C6_RoundTripEveryValue == [](C6_Flushed) /\ [][Reloaded(FALSE)]_vars

\* C6, amended: the same for every value of a type JSON has (str, None,
\* list, ...); a tuple is written as an array and comes back as the list of
\* the same items.  Keys, order and timestamps come back as flushed.
C6_RoundTripJsonValues == [](C6_Flushed) /\ [][Reloaded(TRUE)]_vars

C6_Witness ==
    /\ out.op = "enter"
    /\ out.exc = ""
    /\ Len(out.before.cache) = 2
    /\ out.before.cache[1].response = PyList
    /\ out.before.cache[2].response = PyStr

\* C7: a release with max_age = A > 0 writes no entry whose age at the
\* release exceeds A, and the next with-block does not load one; a release
\* with max_age = 0 (and no size limit) writes every entry.  (Spec)
ExpiredAtRelease ==
    {out.before.cache[i].call : i \in
        {j \in 1..Len(out.before.cache) :
            out.at - out.before.cache[j].created > out.before.max_age}}

C7_ReleaseInv ==
    out.op = "exit" =>
        /\ out.before.max_age > 0 => ExpiredAtRelease \cap Names(fs.file) = {}
        /\ (out.before.max_age = 0 /\ out.before.max_size = 0) =>
              /\ Names(fs.file) = CacheKeys(out.before.cache)
              /\ Len(fs.file.members) = Len(out.before.cache)

C7_NextLoad ==
    (out.op = "exit" /\ out.before.max_age > 0 /\ out'.op = "enter") =>
        ExpiredAtRelease \cap CacheKeys(out'.before.cache) = {}

C7_ReleasePurgesExpired == [](C7_ReleaseInv) /\ [][C7_NextLoad]_vars

C7_Witness ==
    /\ out.op = "exit"
    /\ out.before.max_age = 1
    /\ ExpiredAtRelease # {}
    /\ fs.file.kind = "object"

\* C9: loading when there is no file, or a file of zero bytes, gives an
\* empty store and no error; a with-block that started without the parent
\* directory ends with the directory and the file in place.  (Spec)
C9_MissingOrEmptyFileLoadsEmpty ==
    /\ (out.op = "enter" /\ out.fs.file.kind \in {"missing", "empty"}) =>
          /\ out.exc = ""
          /\ out.before.cache = <<>>
          /\ \E s \in Sessions : sess[s].pc = "block" /\ sess[s].self.cache = <<>>
    /\ (out.op = "exit" /\ ~out.fs.dir) => fs.dir /\ fs.file.kind = "object"

C9_Witness ==
    /\ out.op = "exit"
    /\ ~out.fs.dir
    /\ out.fs.file.kind = "missing"
    /\ fs.dir
    /\ fs.file.kind = "object"

\* C10: when the file holds text that does not parse, opening the cache
\* fails with an error that reaches the caller, the block does not run, the
\* wrapped function is not invoked, and the file is left as it was (nothing
\* but read_file ran).  (SpecDecorator)
C10_CorruptFileFailsWithoutTouchingIt ==
    (out.op \in {"enter", "call"} /\ out.fs.file.kind \in {"garbage", "partial"}
        /\ out.exc # "ValueError") =>
        /\ out.exc = "JSONDecodeError"
        /\ \A s \in Sessions : sess[s].pc = "idle"
        /\ ~out.flag
        /\ fs = out.fs
        /\ out.trace = <<"read_file">>

C10_Witness ==
    /\ out.op = "call"
    /\ out.fs.file.kind = "garbage"
    /\ out.exc = "JSONDecodeError"
    /\ fs = out.fs
\* the limits under which no call falls outside the cache window: no
\* force_update, no entry ever as old as max_age, max_size never exceeded
InWindow ==
    /\ ~deco.force_update
    /\ deco.max_age \in {0, MaxTime + 1}
    /\ deco.max_size \in {0, Cardinality(ArgLists)}

\* the value the file held for the call string when the call began
StoredBefore(file, call) ==
    JsonDecode(file.members[CHOOSE i \in 1..Len(file.members) :
                                file.members[i].name = call].value)

OncePer(calls) ==
    (InWindow /\ out.op = "call" /\ out.key \in calls /\ out.exc # "JSONDecodeError") =>
        /\ out.exc = ""
        /\ invoked[out.key] = 1
        /\ out.key \in Names(out.fs.file) =>
              ~out.flag /\ out.value = StoredBefore(out.fs.file, out.key)
        /\ out.key \notin Names(out.fs.file) => out.flag /\ out.value = out.given

\* C2 as stated: within the cache window the wrapped function has run
\* exactly once for the argument list of every call made, a call whose
\* argument list was called before returns the stored value without running
\* it, and a call with new arguments runs it.  (SpecDecorator)
C2_OncePerArgList == OncePer(CallStrings)

\* what holds of the code: the same for argument lists without keywords
OncePerPositionalArgList ==
    OncePer({CallString(a) : a \in {b \in ArgLists : b.names = <<>>}})

Forced(calls) ==
    (deco.force_update /\ out.op = "call" /\ out.key \in calls
        /\ out.exc # "JSONDecodeError") =>
        /\ out.exc = ""
        /\ out.flag
        /\ out.value = out.given
        /\ fs.file.kind = "object"
        /\ \A i \in 1..Len(fs.file.members) :
              fs.file.members[i].name = out.key =>
                  /\ fs.file.members[i].value = JsonEncode(out.given)
                  /\ fs.file.members[i].stamp >= out.at

\* C8 as stated: with force_update every call runs the wrapped function
\* whatever entries the file holds, returns the fresh result, and the entry
\* the file holds for the call string afterwards is the fresh one.
\* (SpecDecorator)
C8_ForceUpdateAlwaysInvokes == Forced(CallStrings)

\* what holds of the code: the same for argument lists without keywords
ForcedPositionalArgList ==
    Forced({CallString(a) : a \in {b \in ArgLists : b.names = <<>>}})
(***************************************************************************)
(* C11: retrieve                                                           *)
(***************************************************************************)
\* the session that is inside its block
InBlock(s) == sess[s].pc = "block"

\* C11: retrieve(key) gives back the value stored under key whenever key is
\* in the mapping, whether or not that entry is current under max_age and
\* force_update; for a key that is not in the mapping it raises KeyError;
\* either way the mapping of the session is what it was before.
C11_RetrieveIgnoresCurrency ==
    out.op = "retrieve" =>
        LET cache == out.before.cache
            held == {i \in 1..Len(cache) : cache[i].call = out.key}
        IN  /\ held # {} => out.exc = "" /\ \A i \in held : out.value = cache[i].response
            /\ held = {} => out.exc = "KeyError"
            /\ \A s \in Sessions : InBlock(s) /\ sess[s].self.cache = cache

\* a retrieve of an entry that `in` reports as absent because it is too old
C11_Witness ==
    /\ out.op = "retrieve"
    /\ out.key \in CacheKeys(out.before.cache)
    /\ ~out.before.force_update
    /\ out.before.max_age > 0
    /\ out.at - Created(out.before.cache, out.key) >= out.before.max_age
    /\ out.exc = ""
    /\ out.value = PyStr

(***************************************************************************)
(* C12: the call string of a call with keyword arguments                   *)
(***************************************************************************)
\* C12 as stated: the call string of every call, with or without keyword
\* arguments, is made of the positional tuple and the keyword dict, so that
\* two argument lists have one call string exactly when both agree; and
\* every call whose file can be loaded completes with the value of the
\* wrapped function for its arguments: the fresh one when it ran, the one
\* stored under its call string when it did not.  (SpecDecorator)
C12_KeywordCallsComplete ==
    /\ \A a, b \in ArgLists :
          (CallString(a) = CallString(b)) <=> (a.args = b.args /\ a.kwargs = b.kwargs)
    /\ (out.op = "call" /\ out.exc # "JSONDecodeError") =>
          /\ out.exc = ""
          /\ out.flag => out.value = out.given
          /\ ~out.flag =>
                /\ out.key \in Names(out.fs.file)
                /\ out.value = StoredBefore(out.fs.file, out.key)

\* what holds of the code: a call whose keyword names all have two
\* characters, or that has no keywords, completes in this way
KeywordFreeCallsComplete ==
    (out.op = "call" /\ out.exc # "JSONDecodeError"
        /\ \A a \in ArgLists : CallString(a) = out.key => WarnLoop(a) = "") =>
        /\ out.exc = ""
        /\ out.flag => out.value = out.given
        /\ ~out.flag =>
              /\ out.key \in Names(out.fs.file)
              /\ out.value = StoredBefore(out.fs.file, out.key)

(***************************************************************************)
(* C13: with-blocks that overlap                                           *)
(***************************************************************************)
\* the entries the file held when a release began that the releasing
\* session does not hold: another session flushed them after this one loaded
FlushedByOther ==
    {i \in 1..Len(out.fs.file.members) :
        out.fs.file.members[i].name \notin CacheKeys(out.before.cache)}

\* C13: where two with-blocks over one file overlap, each release writes the
\* mapping of the releasing session and nothing else: what another session
\* flushed in the meantime is gone from the file (no merge), and the release
\* reports no error of its own, so that after both releases the file is the
\* mapping of the session that released last.  (SpecOverlap)
C13_LastWriterWins ==
    out.op = "exit" =>
        /\ out.exc = out.raised
        /\ fs.file.kind = "object"
        /\ fs.file.members =
              [i \in 1..Len(out.before.cache) |-> Member(out.before.cache[i])]
        /\ \A i \in FlushedByOther : out.fs.file.members[i].name \notin Names(fs.file)

\* both sessions have released, and the second release dropped an entry the
\* first had flushed
C13_Witness ==
    /\ out.op = "exit"
    /\ \A s \in Overlapping : sess[s].pc = "idle"
    /\ FlushedByOther # {}
    /\ out.exc = ""
    /\ Len(fs.file.members) = Len(out.before.cache)

(***************************************************************************)
(* C14: a flush that fails                                                 *)
(***************************************************************************)
\* the release of the last operation had to fail: the file could not be
\* written, or a response to be written is one json cannot encode
FlushMustFail ==
    \/ ~out.fs.writable
    \/ out.op = "exit" /\ \E i \in 1..Len(out.before.cache) :
                              ~JsonSerializable(out.before.cache[i].response)
    \/ out.op = "call" /\ out.flag /\ out.raised = "" /\ ~JsonSerializable(out.given)

\* the last operation was a release, or a call that got as far as its release
Released ==
    \/ out.op = "exit"
    \/ out.op = "call" /\ out.fs.file.kind \in {"missing", "empty", "object"}

\* C14: store never raises, also for a response json cannot encode, and
\* holds the response afterwards; a release whose write_file fails, for
\* such a response (TypeError) or for a file that cannot be written
\* (OSError), raises that error to the caller of the with-block or of the
\* decorated call, after read_file, _purge_expired and _cull_to_size have
\* run; where the block had raised, its exception is the __context__ of the
\* one raised; and a release that does not fail raises what the block
\* raised, or nothing.  (SpecFaults)
C14_FlushFailureReachesCaller ==
    /\ out.op = "store" =>
          /\ out.exc = ""
          /\ \E s \in Sessions :
                /\ InBlock(s)
                /\ out.key \in CacheKeys(sess[s].self.cache)
                /\ retrieve(sess[s].self, out.key).value = out.given
    /\ Released =>
          /\ out.trace = Lifecycle
          /\ FlushMustFail =>
                /\ out.exc = IF out.fs.writable THEN "TypeError" ELSE "OSError"
                /\ out.context = out.raised
                /\ out.value = PyNone
          /\ ~FlushMustFail => out.exc = out.raised /\ out.context = ""

\* a with-block that stored a set and then raised: the caller gets the
\* TypeError of the flush, with the error of the block as its context
C14_Witness ==
    /\ out.op = "exit"
    /\ \E i \in 1..Len(out.before.cache) : out.before.cache[i].response = PySet
    /\ out.raised = "BlockError"
    /\ out.exc = "TypeError"
    /\ out.context = "BlockError"
    /\ out.trace = Lifecycle

(***************************************************************************)
(* C15: _make_ordinal                                                      *)
(***************************************************************************)
\* the English suffix of n: by the last digit of n, but "th" where the last
\* two digits of n are 11, 12 or 13
EnglishSuffix(n) ==
    LET last == Abs(n) % 10
        lastTwo == Abs(n) % 100
    IN  IF lastTwo \in {11, 12, 13} THEN "th"
        ELSE IF last = 1 THEN "st"
        ELSE IF last = 2 THEN "nd"
        ELSE IF last = 3 THEN "rd"
        ELSE "th"

OrdinalOf(inputs) ==
    (pure.fn = "_make_ordinal" /\ pure.arg \in inputs) =>
        pure.ret = ToString(pure.arg) \o EnglishSuffix(pure.arg)

\* C15 as stated: for every integer n, negative ones included,
\* _make_ordinal(n) is the decimal text of n followed by "st", "nd" or "rd"
\* when the last digit of n is 1, 2 or 3 and its last two digits are not
\* 11, 12 or 13, and by "th" otherwise.  (SpecOrdinal)
C15_OrdinalForEveryInteger == OrdinalOf((0 - MaxOrdinal)..MaxOrdinal)

\* what holds of the code: the same for n >= 0, and for the negative n
\* whose last two digits are not 11, 12 or 13
OrdinalWhereModuloAgrees ==
    OrdinalOf({n \in (0 - MaxOrdinal)..MaxOrdinal :
                  n >= 0 \/ Abs(n) % 100 \notin {11, 12, 13}})

\* the examples of the test suite
OrdinalExamples ==
    /\ _make_ordinal(1) = "1st" /\ _make_ordinal(2) = "2nd" /\ _make_ordinal(3) = "3rd"
    /\ _make_ordinal(4) = "4th" /\ _make_ordinal(0) = "0th" /\ _make_ordinal(11) = "11th"
    /\ _make_ordinal(12) = "12th" /\ _make_ordinal(13) = "13th"
    /\ _make_ordinal(112) = "112th" /\ _make_ordinal(0 - 5) = "-5th"

(***************************************************************************)
(* C16: _parse_compass_heading                                             *)
(***************************************************************************)
\* heading h lies in the sector of 22.5 degrees centred on i * 22.5 degrees,
\* on the circle: some h + 360 * k is at least i * 22.5 - 11.25 and less
\* than i * 22.5 + 11.25 (in quarters of a degree)
InSector(h, i) ==
    \E k \in ((0 - MaxHeading) \div 360 - 1)..(MaxHeading \div 360 + 1) :
        /\ 90 * i - 45 <= 4 * h + 1440 * k
        /\ 4 * h + 1440 * k < 90 * i + 45

\* C16: for every whole heading h, _parse_compass_heading(h) is one of the
\* 16 points, never a KeyError: the point numbered i clockwise from N
\* whose sector, 22.5 degrees wide and centred on i * 22.5 degrees,
\* contains h; headings just below 360 give "N"; and the examples of the
\* test suite come out.  (SpecHeading)
C16_HeadingInItsSector ==
    /\ pure.fn = "_parse_compass_heading" =>
          /\ \E i \in 0..15 : pure.ret = points[i] /\ InSector(pure.arg, i)
          /\ \A i \in 0..15 : InSector(pure.arg, i) => pure.ret = points[i]
    /\ _parse_compass_heading(5) = "N" /\ _parse_compass_heading(355) = "N"
    /\ _parse_compass_heading(20) = "NNE" /\ _parse_compass_heading(190) = "S"
    /\ _parse_compass_heading(195) = "SSW" /\ _parse_compass_heading(345) = "NNW"

\* a heading just below 360 that wraps to N
C16_Witness ==
    /\ pure.fn = "_parse_compass_heading"
    /\ pure.arg = 355
    /\ pure.ret = "N"

(***************************************************************************)
(* C17: the clock readings of one purge                                    *)
(***************************************************************************)
\* the keys a purge at the one reading n would keep
KeptAt(n) ==
    {out.before.cache[i].call : i \in
        {j \in 1..Len(out.before.cache) :
            ~(n - out.before.cache[j].created > out.before.max_age)}}

\* C17 as stated: the purge of a release judges all entries against one
\* reading of the clock: there is one n, between the start and the end of
\* the release, such that the entries removed are those with
\* n - created > max_age, even when the clock moves on during the purge.
\* (Spec; releases with an age limit and no size limit, so that nothing is
\* culled)
C17_PurgeUsesOneNow ==
    (out.op = "exit" /\ out.before.max_age > 0 /\ out.before.max_size = 0
        /\ fs.file.kind = "object") =>
        \E n \in out.at..out.end : Names(fs.file) = KeptAt(n)

\* what holds of the code: every entry is judged against a reading of its
\* own, so an entry too old at the start is removed and one not too old at
\* the end is kept
PurgeBetweenReadings ==
    (out.op = "exit" /\ out.before.max_age > 0 /\ out.before.max_size = 0
        /\ fs.file.kind = "object") =>
        /\ KeptAt(out.end) \subseteq Names(fs.file)
        /\ Names(fs.file) \subseteq KeptAt(out.at)

(***************************************************************************)
(* C18: the decorator reuses current entries only                          *)
(***************************************************************************)
\* the timestamp the file held for the call string when the call began
StampBefore(file, call) ==
    file.members[CHOOSE i \in 1..Len(file.members) : file.members[i].name = call].stamp

\* the file the call loaded held a current entry for its call string
CurrentBefore ==
    /\ out.key \in Names(out.fs.file)
    /\ ~deco.force_update
    /\ deco.max_age = 0 \/ out.at - StampBefore(out.fs.file, out.key) < deco.max_age

\* C18: in a call that loaded its store, the wrapped function runs exactly
\* when the store holds no current entry for the call string: an entry
\* that is present but of age >= max_age > 0 does not stop it.  A call that
\* runs the function returns the fresh result, and the entry the file
\* holds for the call string afterwards has the fresh result and a
\* timestamp taken during the call; a call that does not run it returns
\* the stored value.  (SpecDecorator)
C18_ReusesCurrentEntriesOnly ==
    (out.op = "call" /\ out.trace = Lifecycle) =>
        /\ out.flag <=> ~CurrentBefore
        /\ out.flag =>
              /\ out.exc = ""
              /\ out.value = out.given
              /\ \A i \in 1..Len(fs.file.members) :
                    fs.file.members[i].name = out.key =>
                        /\ fs.file.members[i].value = JsonEncode(out.given)
                        /\ fs.file.members[i].stamp \in out.at..out.end
        /\ ~out.flag => out.value = StoredBefore(out.fs.file, out.key)

\* a call that found an entry of age >= max_age > 0, ran the function and
\* left the fresh entry in the file
C18_Witness ==
    /\ out.op = "call"
    /\ out.trace = Lifecycle
    /\ ~deco.force_update
    /\ deco.max_age > 0
    /\ out.key \in Names(out.fs.file)
    /\ out.at - StampBefore(out.fs.file, out.key) >= deco.max_age
    /\ out.flag
    /\ out.value = out.given
    /\ out.key \in Names(fs.file)
    /\ StampBefore(fs.file, out.key) > StampBefore(out.fs.file, out.key)

(***************************************************************************)
(* C19: a wrapped function that raises                                     *)
(***************************************************************************)
\* the members the call loaded
LoadedMembers ==
    IF out.fs.file.kind = "object" THEN out.fs.file.members ELSE <<>>

\* of these, the ones not too old at the reading of the purge
Unexpired ==
    SelectSeq(LoadedMembers,
              LAMBDA m : deco.max_age = 0 \/ ~(out.end - m.stamp > deco.max_age))

Range(seq) == {seq[i] : i \in 1..Len(seq)}

\* C19: a call whose wrapped function raises gives that error to its
\* caller and no value; read_file, _purge_expired, _cull_to_size and
\* write_file have run all the same, and the file afterwards holds the
\* loaded entries, each with the value and timestamp it had, less the
\* expired ones and, over max_size, less the oldest: nothing was stored
\* under the call string, and what it held before is not altered.
\* (SpecRaising)
C19_RaisingCallStillFlushes ==
    (out.op = "call" /\ out.raised = "FuncError") =>
        /\ out.flag
        /\ out.exc = "FuncError"
        /\ out.context = ""
        /\ out.value = PyNone
        /\ out.trace = Lifecycle
        /\ fs.file.kind = "object"
        /\ Range(fs.file.members) \subseteq Range(Unexpired)
        /\ Len(fs.file.members) =
              IF deco.max_size > 0 /\ Len(Unexpired) > deco.max_size
              THEN deco.max_size ELSE Len(Unexpired)
        /\ \A m \in Range(Unexpired) \ Range(fs.file.members) :
              \A k \in Range(fs.file.members) : k.stamp >= m.stamp

\* a raising call whose call string had an entry too old to be current:
\* the entry is in the file afterwards as it was
C19_Witness ==
    /\ out.op = "call"
    /\ out.raised = "FuncError"
    /\ out.exc = "FuncError"
    /\ out.key \in Names(out.fs.file)
    /\ out.key \in Names(fs.file)
    /\ StampBefore(fs.file, out.key) = StampBefore(out.fs.file, out.key)
    /\ StoredBefore(fs.file, out.key) = StoredBefore(out.fs.file, out.key)

(***************************************************************************)
(* C20: store                                                              *)
(***************************************************************************)
\* C20: store(key, value) leaves the mapping with exactly one entry for
\* key, holding value and the time of the store; every other entry is as
\* it was and none is removed, whatever max_size is; the mapping is one
\* entry longer when key is new and as long as before when it is not.
\* (SpecSize)
C20_StoreSetsOneEntry ==
    out.op = "store" =>
        \A s \in Sessions :
            LET pre == out.before.cache
                post == sess[s].self.cache
            IN  /\ InBlock(s)
                /\ Cardinality({i \in 1..Len(post) : post[i].call = out.key}) = 1
                /\ Entry(out.key, out.given, out.at) \in Range(post)
                /\ {e \in Range(pre) : e.call # out.key} =
                      {e \in Range(post) : e.call # out.key}
                /\ Cardinality(CacheKeys(post)) = Len(post)
                /\ Len(post) = Len(pre) + (IF out.key \in CacheKeys(pre) THEN 0 ELSE 1)

\* a store over an older entry of the same key, in a mapping that is
\* longer than max_size
C20_Witness ==
    /\ out.op = "store"
    /\ out.key \in CacheKeys(out.before.cache)
    /\ Created(out.before.cache, out.key) < out.at
    /\ \E s \in Sessions :
          /\ InBlock(s)
          /\ sess[s].self.max_size > 0
          /\ Len(sess[s].self.cache) > sess[s].self.max_size
          /\ Created(sess[s].self.cache, out.key) = out.at

(***************************************************************************)
(* C21: the entry a call stores and the cull of the same call              *)
(***************************************************************************)
\* the last operation is a call that ran the function and stored its result
StoredOnMiss ==
    out.op = "call" /\ out.flag /\ out.raised = "" /\ out.trace = Lifecycle

\* the file holds the fresh entry of the call
FreshInFile ==
    \E i \in 1..Len(fs.file.members) :
        /\ fs.file.members[i].name = out.key
        /\ fs.file.members[i].value = JsonEncode(out.given)
        /\ fs.file.members[i].stamp \in out.at..out.end

\* the call stored over an entry of its call string in a file that held
\* more entries than max_size, one of them stamped at the time of the call
OverwroteAmongTies ==
    /\ out.key \in Names(out.fs.file)
    /\ Len(out.fs.file.members) > deco.max_size
    /\ \E i \in 1..Len(out.fs.file.members) :
          /\ out.fs.file.members[i].name # out.key
          /\ out.fs.file.members[i].stamp >= out.at

\* C21 as stated: with max_size >= 1, the entry a call stores on a miss is
\* in the file after the call, whatever the file held before.  (SpecResize)
C21_FreshEntrySurvives ==
    (StoredOnMiss /\ deco.max_size >= 1) => FreshInFile

\* the purge of the call read the clock more than max_age after the call
\* began
PurgedLate == deco.max_age > 0 /\ out.end - out.at > deco.max_age

\* C21 amended: the same, unless the call stored over an entry of its call
\* string in a file that held more than max_size entries, one of them with
\* the timestamp of the fresh entry, or the clock moved on by more than
\* max_age between the store and the purge.  (SpecResize)
C21_FreshEntrySurvivesWithoutTies ==
    (StoredOnMiss /\ deco.max_size >= 1 /\ ~OverwroteAmongTies /\ ~PurgedLate) =>
        FreshInFile

\* a call that stored over an entry of its call string in a file that held
\* more than max_size entries: the cull removed an older entry and kept the
\* fresh one
C21_Witness ==
    /\ StoredOnMiss
    /\ deco.max_size >= 1
    /\ ~OverwroteAmongTies
    /\ ~PurgedLate
    /\ out.key \in Names(out.fs.file)
    /\ Len(out.fs.file.members) > deco.max_size
    /\ Len(fs.file.members) < Len(out.fs.file.members)
    /\ FreshInFile

(***************************************************************************)
(* C22: expired entries and the size limit                                 *)
(***************************************************************************)
\* the keys of the releasing session that are not expired at reading n
NotExpiredAt(n) ==
    IF out.before.max_age = 0 THEN CacheKeys(out.before.cache) ELSE KeptAt(n)

\* at reading n: entries that are not expired are removed only over
\* max_size > 0, and then as many as there are over max_size
CullCountsUnexpiredOnly(n) ==
    LET alive == NotExpiredAt(n)
        removed == alive \ Names(fs.file)
        over == out.before.max_size > 0 /\ Cardinality(alive) > out.before.max_size
    IN  /\ fs.file.kind = "object"
        /\ over => Cardinality(removed) = Cardinality(alive) - out.before.max_size
        /\ ~over => removed = {}

\* C22: at a release the entries that are expired do not count toward
\* max_size: an entry that is not expired when the release ends is removed
\* only when the entries that are not expired are more than max_size > 0,
\* and then exactly (their number - max_size) of them are removed.  (Spec)
C22_ExpiredDoNotCountTowardSize ==
    out.op = "exit" => CullCountsUnexpiredOnly(out.end)

\* a release under max_size = 1 of two entries, one of them expired: the
\* file holds the other
C22_Witness ==
    /\ out.op = "exit"
    /\ out.before.max_size = 1
    /\ out.before.max_age > 0
    /\ Len(out.before.cache) = 2
    /\ Cardinality(NotExpiredAt(out.end)) = 1
    /\ Names(fs.file) = NotExpiredAt(out.end)

(***************************************************************************)
(* C23: what a release persists and what the membership test reports       *)
(***************************************************************************)
\* the last operation is a release under an age limit, without force_update
AgedRelease ==
    /\ out.op = "exit"
    /\ ~out.before.force_update
    /\ out.before.max_age > 0
    /\ fs.file.kind = "object"

\* C23 as stated: every entry the file holds after such a release is one
\* the membership test of the releasing session reports as current at the
\* moment the release began, entries of age exactly max_age included.
\* (Spec)
C23_PersistedEntriesAreCurrent ==
    AgedRelease =>
        \A i \in 1..Len(fs.file.members) :
            __contains__(out.before, fs.file.members[i].name, out.at)

\* C23 amended: every entry the file holds after such a release had an age
\* of at most max_age when the release began; the membership test at that
\* moment reports it as current exactly when its age is below max_age, so
\* an entry of age exactly max_age is persisted and reported as absent.
\* (Spec)
C23_PersistedEntriesAreNotExpired ==
    AgedRelease =>
        \A i \in 1..Len(fs.file.members) :
            LET m == fs.file.members[i]
            IN  /\ m.name \in CacheKeys(out.before.cache)
                /\ m.stamp = Created(out.before.cache, m.name)
                /\ out.at - m.stamp <= out.before.max_age
                /\ __contains__(out.before, m.name, out.at) <=>
                      out.at - m.stamp < out.before.max_age

\* a release that persisted an entry of age exactly max_age, which the
\* membership test reports as absent
C23_Witness ==
    /\ AgedRelease
    /\ \E i \in 1..Len(fs.file.members) :
          /\ out.at - fs.file.members[i].stamp = out.before.max_age
          /\ ~__contains__(out.before, fs.file.members[i].name, out.at)

====
